---- MODULE Spec2Model ----
(***************************************************************************)
(* Secret Santa as a binary optimization problem (secret-santa.ipynb).     *)
(*                                                                         *)
(* The notebook builds the penalty terms of six exclusive-or constraints   *)
(* with build_terms, hands them to a hosted simulated-annealing solver and *)
(* prints the returned configuration with print_results.                   *)
(***************************************************************************)
EXTENDS Integers, Sequences, FiniteSets, TLC

\* Largest variable index build_terms is called with in SpecBuildTerms
\* (the notebook itself only uses the indices 0..5).
MaxIndex == 5

VARIABLES
    pc,       \* position in the notebook, or in the function being called
    terms,    \* the term list `terms`
    config,   \* result['configuration']: ordered (key, value) items
    cost,     \* result['cost']: objective of the returned configuration
    printed,  \* the lines print_results has written, in order
    outcome,  \* how print_results ended: "none", "returned" or an exception name
    i, j,     \* the arguments of the build_terms call of SpecBuildTerms
    x         \* an assignment of the variables 0..MaxIndex

vars == <<pc, terms, config, cost, printed, outcome, i, j, x>>

-----------------------------------------------------------------------------
(* Terms and the objective                                                 *)

\* Term(c = ..., indices = [...])
Term(c, indices) == [c |-> c, indices |-> indices]

\* build_terms with the sign of the linear term in x(i) lost
build_terms_sign(a, b) ==
    << Term(1, <<a, a>>), Term(1, <<b, b>>), Term(2, <<a, b>>),
       Term(2, <<a>>), Term(-2, <<b>>), Term(1, << >>) >>

\* build_terms with the cross term appended before the second square
build_terms_order(a, b) ==
    << Term(1, <<a, a>>), Term(2, <<a, b>>), Term(1, <<b, b>>),
       Term(-2, <<a>>), Term(-2, <<b>>), Term(1, << >>) >>

\* build_terms without the constant term
build_terms_noconst(a, b) ==
    << Term(1, <<a, a>>), Term(1, <<b, b>>), Term(2, <<a, b>>),
       Term(-2, <<a>>), Term(-2, <<b>>) >>

\* def build_terms(i, j): the six terms of (x_i + x_j - 1)^2, in append order
build_terms(a, b) ==
    << Term(1, <<a, a>>),     \* x(i)^2
       Term(1, <<b, b>>),     \* x(j)^2
       Term(2, <<a, b>>),     \* 2x(i)x(j)
       Term(-2, <<a>>),       \* -2x(i)
       Term(-2, <<b>>),       \* -2x(j)
       Term(1, << >>) >>      \* +1

\* prod_i x_i over a term's index list (the empty product is 1)
RECURSIVE Product(_, _)
Product(indices, a) ==
    IF indices = << >> THEN 1
    ELSE a[Head(indices)] * Product(Tail(indices), a)

\* The objective with equal terms counted once instead of summed
RECURSIVE SumOfSet(_, _)
SumOfSet(S, a) ==
    IF S = {} THEN 0
    ELSE LET t == CHOOSE t \in S : TRUE
         IN  t.c * Product(t.indices, a) + SumOfSet(S \ {t}, a)

Objective_dedup(ts, a) == SumOfSet({ ts[n] : n \in 1..Len(ts) }, a)

\* sum_k c_k prod_i x_i: the cost function the solver minimizes
RECURSIVE Objective(_, _)
Objective(ts, a) ==
    IF ts = << >> THEN 0
    ELSE Head(ts).c * Product(Head(ts).indices, a) + Objective(Tail(ts), a)

-----------------------------------------------------------------------------
(* The 3-person problem                                                    *)

\* The rows with Uma's row shifted by one index
RowPairs_shifted == << <<0, 1>>, <<2, 3>>, <<3, 4>> >>

\* row 0, row 1, row 2 of the secret santa matrix
RowPairs == << <<0, 1>>, <<2, 3>>, <<4, 5>> >>

\* col 0, col 1, col 2 of the secret santa matrix
ColPairs == << <<2, 4>>, <<0, 5>>, <<1, 3>> >>

\* build_terms(p1) + build_terms(p2) + build_terms(p3)
RECURSIVE ConcatTerms(_)
ConcatTerms(pairs) ==
    IF pairs = << >> THEN << >>
    ELSE build_terms(Head(pairs)[1], Head(pairs)[2]) \o ConcatTerms(Tail(pairs))

\* terms = build_terms(0, 1) + build_terms(2, 3) + build_terms(4, 5)
RowTerms == ConcatTerms(RowPairs)

\* The second statement without the column terms
AddColTerms_none(ts) == ts

\* terms = terms + build_terms(2, 4) + build_terms(0, 5) + build_terms(1, 3)
AddColTerms(ts) == ts \o ConcatTerms(ColPairs)

-----------------------------------------------------------------------------
(* print_results                                                           *)

\* A printed sentence, word by word.
Sentence(giver, receiver, pronoun) ==
    << giver, "buys", receiver, "a", "gift", "and", "writes", pronoun, "a", "poem." >>

\* The dictionary with the sentences of '4' and '5' exchanged
result_swapped ==
    [ k \in {"0", "1", "2", "3", "4", "5"} |->
        CASE k = "0" -> Sentence("Vincent", "Tess", "her")
          [] k = "1" -> Sentence("Vincent", "Uma", "her")
          [] k = "2" -> Sentence("Tess", "Vincent", "him")
          [] k = "3" -> Sentence("Tess", "Uma", "her")
          [] k = "4" -> Sentence("Uma", "Tess", "her")
          [] k = "5" -> Sentence("Uma", "Vincent", "him") ]

\* The dictionary `result` of print_results
result ==
    [ k \in {"0", "1", "2", "3", "4", "5"} |->
        CASE k = "0" -> Sentence("Vincent", "Tess", "her")
          [] k = "1" -> Sentence("Vincent", "Uma", "her")
          [] k = "2" -> Sentence("Tess", "Vincent", "him")
          [] k = "3" -> Sentence("Tess", "Uma", "her")
          [] k = "4" -> Sentence("Uma", "Vincent", "him")
          [] k = "5" -> Sentence("Uma", "Tess", "her") ]

\* for key, val in config.items(): if val == 1: print(result[key])
\* Returns the lines written and how the call ended (result[key] raises
\* KeyError for a key the dictionary does not hold).
RECURSIVE print_loop(_, _)
print_loop(items, sofar) ==
    IF items = << >> THEN [printed |-> sofar, outcome |-> "returned"]
    ELSE LET key == Head(items)[1]
             val == Head(items)[2]
         IN  IF val = 1
             THEN IF key \in DOMAIN result
                  THEN print_loop(Tail(items), Append(sofar, result[key]))
                  ELSE [printed |-> sofar, outcome |-> "KeyError"]
             ELSE print_loop(Tail(items), sofar)

\* print_results with the test inverted: a line for every value that is not 1
print_results_inverted(cfg) ==
    print_loop([ n \in 1..Len(cfg) |-> <<cfg[n][1], 1 - cfg[n][2]>> ], << >>)

\* print_results leaving the loop after the first line it writes
print_results_first(cfg) ==
    LET r == print_loop(cfg, << >>)
    IN  [ printed |-> IF Len(r.printed) > 1 THEN SubSeq(r.printed, 1, 1) ELSE r.printed,
          outcome |-> r.outcome ]

print_results(cfg) == print_loop(cfg, << >>)

-----------------------------------------------------------------------------
(* The solver's answer                                                     *)

\* The variable indices a term list mentions
Variables(ts) == UNION { { ts[n].indices[m] : m \in 1..Len(ts[n].indices) } : n \in 1..Len(ts) }

\* The configuration names variable n by the string of its index
KeyOf(n) == ToString(n)

\* Every order in which a dictionary may hold the keys S
RECURSIVE Orders(_)
Orders(S) ==
    IF S = {} THEN { << >> }
    ELSE UNION { { <<k>> \o rest : rest \in Orders(S \ {k}) } : k \in S }

\* result['configuration'] for the order `order` of the keys and the values `a`
ConfigOf(order, a) == [ n \in 1..Len(order) |-> <<order[n], a[order[n]]>> ]

\* All binary assignments of the index set V
Assignments(V) == [V -> {0, 1}]

-----------------------------------------------------------------------------
(* The notebook, cell by cell                                              *)

Init ==
    /\ pc = "rows"
    /\ terms = << >>
    /\ config = << >>
    /\ cost = "none"
    /\ printed = << >>
    /\ outcome = "none"
    /\ i = 0
    /\ j = 0
    /\ x = << >>

\* terms = build_terms(0, 1) + build_terms(2, 3) + build_terms(4, 5)
BuildRows ==
    /\ pc = "rows"
    /\ terms' = RowTerms
    /\ pc' = "cols"
    /\ UNCHANGED <<config, cost, printed, outcome, i, j, x>>

\* terms = terms + build_terms(2, 4) + build_terms(0, 5) + build_terms(1, 3)
BuildCols ==
    /\ pc = "cols"
    /\ terms' = AddColTerms(terms)
    /\ pc' = "submit"
    /\ UNCHANGED <<config, cost, printed, outcome, i, j, x>>

\* result = solver.optimize(problem): the hosted solver answers with some
\* configuration of the problem's variables and that configuration's cost.
\* Simulated annealing is a heuristic: the answer need not be a minimum.
Optimize ==
    /\ pc = "submit"
    /\ \E order \in Orders(Variables(terms)) :
       \E a \in Assignments(Variables(terms)) :
          /\ config' = [ n \in 1..Len(order) |-> <<KeyOf(order[n]), a[order[n]]>> ]
          /\ cost' = Objective(terms, a)
    /\ pc' = "display"
    /\ UNCHANGED <<terms, printed, outcome, i, j, x>>

\* print_results(result['configuration'])
DisplayResults ==
    /\ pc = "display"
    /\ printed' = print_results(config).printed
    /\ outcome' = print_results(config).outcome
    /\ pc' = "done"
    /\ UNCHANGED <<terms, config, cost, i, j, x>>

Next == BuildRows \/ BuildCols \/ Optimize \/ DisplayResults

Spec == Init /\ [][Next]_vars

-----------------------------------------------------------------------------
(* build_terms on its own: any two indices, any assignment                 *)

InitBuildTerms ==
    /\ pc = "call"
    /\ i \in 0..MaxIndex
    /\ j \in 0..MaxIndex
    /\ x \in Assignments(0..MaxIndex)
    /\ terms = << >>
    /\ config = << >>
    /\ cost = "none"
    /\ printed = << >>
    /\ outcome = "none"

\* terms = build_terms(i, j)
CallBuildTerms ==
    /\ pc = "call"
    /\ terms' = build_terms(i, j)
    /\ pc' = "built"
    /\ UNCHANGED <<config, cost, printed, outcome, i, j, x>>

\* the objective of the returned terms at the assignment x
Evaluate ==
    /\ pc = "built"
    /\ cost' = Objective(terms, x)
    /\ pc' = "evaluated"
    /\ UNCHANGED <<terms, config, printed, outcome, i, j, x>>

NextBuildTerms == CallBuildTerms \/ Evaluate

SpecBuildTerms == InitBuildTerms /\ [][NextBuildTerms]_vars

-----------------------------------------------------------------------------
(* print_results on its own: any dictionary over a subset of the keys      *)
(* '0'..'5', in any order, with binary values                              *)

InitPrintResults ==
    /\ pc = "display"
    /\ \E S \in SUBSET (DOMAIN result) :
       \E order \in Orders(S) :
       \E a \in [S -> {0, 1}] :
          config = ConfigOf(order, a)
    /\ terms = << >>
    /\ cost = "none"
    /\ printed = << >>
    /\ outcome = "none"
    /\ i = 0
    /\ j = 0
    /\ x = << >>

NextPrintResults == DisplayResults

SpecPrintResults == InitPrintResults /\ [][NextPrintResults]_vars

-----------------------------------------------------------------------------
(* Properties of build_terms (SpecBuildTerms)                              *)

\* C1: the objective of build_terms(i, j) is 0 at the assignments
\* (x_i = 0, x_j = 1) and (x_i = 1, x_j = 0), and 1 at (0, 0) and (1, 1).
C1_TruthTable ==
    pc = "evaluated" =>
        /\ (x[i] = 0 /\ x[j] = 1) => cost = 0
        /\ (x[i] = 1 /\ x[j] = 0) => cost = 0
        /\ (x[i] = 0 /\ x[j] = 0) => cost = 1
        /\ (x[i] = 1 /\ x[j] = 1) => cost = 1

C1_Witness ==
    /\ pc = "evaluated"
    /\ i # j
    /\ x[i] = 1 /\ x[j] = 0
    /\ cost = 0

\* C5: build_terms(i, j) returns exactly six terms, in the order 1*[i,i],
\* 1*[j,j], 2*[i,j], -2*[i], -2*[j], 1*[]; every index list has length 0, 1
\* or 2 and mentions no index other than i and j.
C5_SixTerms ==
    pc \in {"built", "evaluated"} =>
        /\ Len(terms) = 6
        /\ terms[1].c = 1  /\ terms[1].indices = <<i, i>>
        /\ terms[2].c = 1  /\ terms[2].indices = <<j, j>>
        /\ terms[3].c = 2  /\ terms[3].indices = <<i, j>>
        /\ terms[4].c = -2 /\ terms[4].indices = <<i>>
        /\ terms[5].c = -2 /\ terms[5].indices = <<j>>
        /\ terms[6].c = 1  /\ terms[6].indices = << >>
        /\ \A n \in 1..Len(terms) :
              /\ Len(terms[n].indices) \in 0..2
              /\ \A m \in 1..Len(terms[n].indices) : terms[n].indices[m] \in {i, j}

C5_Witness ==
    /\ pc = "built"
    /\ i = 2 /\ j = 4
    /\ Len(terms) = 6
    /\ terms[3] = [c |-> 2, indices |-> <<2, 4>>]

-----------------------------------------------------------------------------
(* Properties of the 3-person problem (Spec)                               *)

\* Who gives and who receives, read off a printed sentence
Giver(sentence) == sentence[1]
Receiver(sentence) == sentence[3]

\* The index pairs a term list was built from: the third term of every
\* block of six is the cross term 2 x_i x_j of one build_terms(i, j) call
PairsOf(ts) == [ n \in 1..(Len(ts) \div 6) |-> ts[6 * (n - 1) + 3].indices ]

\* The first statement contributes the three row groups, the second the
\* three column groups
RowGroups == SubSeq(PairsOf(terms), 1, 3)
ColGroups == SubSeq(PairsOf(terms), 4, Len(PairsOf(terms)))

\* How many of the pairs in `pairs` mention the variable v
Occurrences(pairs, v) == Cardinality({ n \in 1..Len(pairs) : v \in {pairs[n][1], pairs[n][2]} })

\* The six exclusive-or constraints of the problem, as index pairs
XorPairs == { <<0, 1>>, <<2, 3>>, <<4, 5>>, <<2, 4>>, <<0, 5>>, <<1, 3>> }

\* The variables of the all-zero assignment and of the two derangements
AllZero == [ v \in 0..5 |-> 0 ]
Cycle034 == [ v \in 0..5 |-> IF v \in {0, 3, 4} THEN 1 ELSE 0 ]

\* C2: a zero-cost assignment, read through the print_results table, is a
\* valid derangement: each of Vincent, Tess and Uma appears exactly once as
\* giver and exactly once as receiver, and nobody gives to themselves.
C2_ZeroCostIsDerangement ==
    (pc = "done" /\ cost = 0) =>
        /\ \A p \in {"Vincent", "Tess", "Uma"} :
              /\ Cardinality({ n \in 1..Len(printed) : Giver(printed[n]) = p }) = 1
              /\ Cardinality({ n \in 1..Len(printed) : Receiver(printed[n]) = p }) = 1
        /\ \A n \in 1..Len(printed) : Giver(printed[n]) # Receiver(printed[n])

C2_Witness ==
    /\ pc = "done"
    /\ cost = 0
    /\ Len(printed) = 3
    /\ \E n \in 1..Len(printed) :
          Giver(printed[n]) = "Vincent" /\ Receiver(printed[n]) = "Uma"

\* C3: the problem uses exactly the variables 0..5 and the minimum of its
\* objective over all 64 assignments is 0.
C3_SixVariablesMinZero ==
    pc = "submit" =>
        /\ Variables(terms) = 0..5
        /\ Cardinality(Assignments(Variables(terms))) = 64
        /\ \A a \in Assignments(Variables(terms)) : Objective(terms, a) >= 0
        /\ \E a \in Assignments(Variables(terms)) : Objective(terms, a) = 0

C3_Witness ==
    /\ pc = "submit"
    /\ Cardinality(Variables(terms)) = 6
    /\ Objective(terms, Cycle034) = 0

C9_ObjectiveCountsViolations ==
    pc = "submit" =>
        \A a \in Assignments(0..5) :
            /\ Objective(terms, a) = Cardinality({ p \in XorPairs : a[p[1]] + a[p[2]] # 1 })
            /\ Objective(terms, a) \in 0..6
            /\ Objective(terms, a) = 0 <=> \A p \in XorPairs : a[p[1]] + a[p[2]] = 1

C9_Witness ==
    /\ pc = "submit"
    /\ Objective(terms, AllZero) = 6
    /\ Objective(terms, Cycle034) = 0
    /\ Objective(terms, [Cycle034 EXCEPT ![0] = 0]) = 2

-----------------------------------------------------------------------------
(* Properties of print_results (SpecPrintResults)                          *)

\* The items of a configuration whose value is 1, in iteration order
IsOne(item) == item[2] = 1
Ones(cfg) == SelectSeq(cfg, IsOne)

\* The keys a configuration sets to 1
Chosen(cfg) == { cfg[n][1] : n \in { m \in 1..Len(cfg) : cfg[m][2] = 1 } }

\* The one-hot constraints on a configuration: every person gives exactly
\* one gift and receives exactly one gift
OneHot(cfg) ==
    \A p \in {"Vincent", "Tess", "Uma"} :
        /\ Cardinality({ k \in Chosen(cfg) : Giver(result[k]) = p }) = 1
        /\ Cardinality({ k \in Chosen(cfg) : Receiver(result[k]) = p }) = 1

\* C10: print_results writes exactly one line for each key whose value is
\* 1, the table entry of that key, in the configuration's iteration order,
\* nothing for a key whose value is 0, and leaves the configuration
\* unchanged.
C10_OneLinePerOne ==
    [][ (pc = "display" /\ pc' = "done") =>
            /\ config' = config
            /\ outcome' = "returned"
            /\ Len(printed') = Cardinality({ n \in 1..Len(config) : config[n][2] = 1 })
            /\ printed' = [ n \in 1..Len(Ones(config)) |-> result[Ones(config)[n][1]] ]
      ]_vars

C10_Witness ==
    /\ pc = "done"
    /\ Len(config) = 6
    /\ config[1] = <<"5", 1>>
    /\ config[2] = <<"0", 0>>
    /\ config[3] = <<"2", 1>>
    /\ Len(printed) = 2
    /\ printed[1] = result["5"]
    /\ printed[2] = result["2"]

\* Two givers both point to the same receiver
SameReceiverTwice(cfg) ==
    \E k1, k2 \in Chosen(cfg) :
        /\ k1 # k2
        /\ Receiver(result[k1]) = Receiver(result[k2])

====
